---- MODULE Spec2Model ----
(***************************************************************************)
(* The browser client of elm-watch: the reconnecting web socket client,    *)
(* its status state machine (update), the commands it emits (runCmd) and   *)
(* the page events that feed it.                                           *)
(*                                                                         *)
(* Dates are kept relative to the current instant: the current instant is  *)
(* Now (0), a date in the past is a negative number of milliseconds, and   *)
(* the passing of time (Tick) shifts every stored date and every armed     *)
(* timer.  A stored date is followed back to DateHorizon only: as far as   *)
(* the program can tell it from an older one.                              *)
(***************************************************************************)
EXTENDS Integers, Sequences, FiniteSets, TLC

VARIABLES
    model,            \* Model: status, elmCompiledTimestamp, canHotReload, uiExpanded
    mutable,          \* Mutable: webSocket (a socket id), listeners installed or not
    sockets,          \* readyState of every WebSocket object the page created
    reloadOnClose,    \* sockets carrying the extra "close" listener of ReloadPage
    timers,           \* armed setTimeout timers: milliseconds left until each is due
    visible,          \* document.visibilityState === "visible"
    msgQueue,         \* messages dispatched while a message was being processed
    killed,           \* the program loop was resolved (no further dispatch)
    reloadCalled,     \* window.__ELM_WATCH_RELOAD_PAGE() has been called
    dom,              \* the handlers of the last rendered view
    COMPILATION_MODE, \* the mode this page's code was compiled in
    stubbedReload,    \* window.__ELM_WATCH_RELOAD_PAGE was defined before the script ran
    lastMsg,          \* the message processed by the last step (NoMsg if none)
    cmds,             \* the commands update returned in the last step
    lastAttempt,      \* attempt number of the most recent status that carried one
    attemptIn,        \* the attempt number handed to retryWaitMs (0: none yet)
    waitMs,           \* what retryWaitMs returned for it (0: not called yet)
    existing,         \* window.Elm as the stub script finds it
    trap,             \* the last operation made on elmProxy (NoTrap if none)
    trapResult,       \* what that operation returned or threw
    Elm,              \* window.Elm once the page's Elm apps are initialized
    appsStatus        \* what checkInitializedElmAppsStatus returned for it

vars == <<model, mutable, sockets, reloadOnClose, timers, visible, msgQueue, killed,
          reloadCalled, dom, COMPILATION_MODE, stubbedReload, lastMsg, cmds,
          lastAttempt, attemptIn, waitMs, existing, trap, trapResult, Elm,
          appsStatus>>

\* What the functions checked on their own were called with and gave.
calls == <<attemptIn, waitMs, existing, trap, trapResult, Elm, appsStatus>>

----------------------------------------------------------------------------
(* Bounds of the model *)

MaxAttempt == 2   \* no close is modelled that would raise the attempt number above this
MaxTimers  == 2   \* no close is modelled while this many timers are armed
MaxSockets == 2   \* WebSocket objects that can be alive at once in the model
TickMs     == 1010 \* time passes in steps of this many milliseconds
MaxCheckedAttempt == 120 \* retryWaitMs is tabulated for attempts 1..MaxCheckedAttempt

----------------------------------------------------------------------------
(* Types *)

CompilationMode == {"debug", "standard", "optimize"}
CompilationModeWithProxy == CompilationMode \cup {"proxy"}

\* The modes of the pages that are modelled: a compiled one and the stub.
PageModes == {"standard", "proxy"}

SEND_KEY_DO_NOT_USE_ALL_THE_TIME == "SendKey"
undefined == "undefined"

Now == 0

\* The values the model draws its inputs from.
Stamps == {41, 42}
Codes == {"1+1", "f()"}
ClientErrorMessages == {"version mismatch"}
ServerBusyModes == {"debug"}

Min(a, b) == IF a <= b THEN a ELSE b
Max(a, b) == IF a >= b THEN a ELSE b

NoMsg == [tag |-> "none"]
NoTrap == [name |-> "none"]
InitMsg == [tag |-> "init"]

----------------------------------------------------------------------------
(* Wire protocol: what the server can send, and what can arrive *)

ServerStatus ==
    {[tag |-> "AlreadyUpToDate"], [tag |-> "CompileError"]}
    \cup {[tag |-> "Busy", compilationMode |-> m] : m \in CompilationMode}
    \cup {[tag |-> "ClientError", message |-> e] : e \in ClientErrorMessages}

WebSocketToClientMessage ==
    {[tag |-> "StatusChanged", status |-> s] : s \in ServerStatus}
    \cup {[tag |-> "SuccessfullyCompiled", code |-> c,
           elmCompiledTimestamp |-> t, compilationMode |-> m] :
             c \in Codes, t \in Stamps, m \in CompilationMode}

SuccessfullyCompiled(code, elmCompiledTimestamp, compilationMode) ==
    [tag |-> "SuccessfullyCompiled", code |-> code,
     elmCompiledTimestamp |-> elmCompiledTimestamp,
     compilationMode |-> compilationMode]

\* The well-formed frames the modelled server sends.
ServerFrames ==
    {[tag |-> "StatusChanged", status |-> s] :
       s \in {t \in ServerStatus : t.tag = "Busy" => t.compilationMode \in ServerBusyModes}}
    \cup {SuccessfullyCompiled("1+1", 42, "standard"),
          SuccessfullyCompiled("f()", 41, "standard"),
          SuccessfullyCompiled("1+1", 41, "debug"),
          SuccessfullyCompiled("f()", 42, "optimize")}

\* Frames that are not a WebSocketToClientMessage: not JSON, an unknown tag.
MalformedData == {[raw |-> "not json"], [raw |-> "{\"tag\":\"Nope\"}"]}

WebSocketData == ServerFrames \cup MalformedData

\* What is thrown for each malformed frame: the SyntaxError of JSON.parse, the
\* DecoderError of the decoder.
JsonSyntaxError == "Unexpected token o in JSON at position 1"
TagDecoderError == "At root[\"tag\"]: Expected one of these tags"

\* decodeWebSocketToClientMessage(Decode.string(data)): the message, or the
\* error thrown for a frame that is not one.
decodeWebSocketToClientMessage(data) ==
    IF data \in WebSocketToClientMessage
    THEN [ok |-> TRUE, message |-> data]
    ELSE [ok |-> FALSE,
          error |-> IF data.raw = "not json"
                    THEN [instanceof |-> "Error", message |-> JsonSyntaxError]
                    ELSE [instanceof |-> "DecoderError", format |-> TagDecoderError]]

possiblyDecodeErrorToString(unknownError) ==
    IF unknownError.instanceof = "DecoderError" THEN unknownError.format
    ELSE IF unknownError.instanceof = "Error" THEN unknownError.message
    ELSE unknownError.repr

DecodeErrorPrefix == "Failed to decode web socket message sent from the server:\n"

\* A slip: the error that was caught is dropped.
parseWebSocketMessageData_Generic(data) ==
    LET decoded == decodeWebSocketToClientMessage(data)
    IN IF decoded.ok
       THEN [tag |-> "Success", message |-> decoded.message]
       ELSE [tag |-> "Error", message |-> DecodeErrorPrefix]

parseWebSocketMessageData(data) ==
    LET decoded == decodeWebSocketToClientMessage(data)
    IN IF decoded.ok
       THEN [tag |-> "Success", message |-> decoded.message]
       ELSE [tag |-> "Error",
             message |-> DecodeErrorPrefix
                           \o possiblyDecodeErrorToString(decoded.error)]

----------------------------------------------------------------------------
(* The transition function *)

\* A slip: the attempt number is not squared.
retryWaitMs_Linear(attemptNumber) ==
    Min(1000 + 10 * attemptNumber, 1000 * 60)

retryWaitMs(attemptNumber) ==
    Min(1000 + 10 * (attemptNumber * attemptNumber), 1000 * 60)

\* How far back the program can tell the date of a status from an older one:
\* reconnect compares the date of SleepingBeforeReconnect with retryWaitMs of
\* its attempt number; no other date is read but to be printed.
DateHorizon(status) ==
    IF status.tag = "SleepingBeforeReconnect"
    THEN retryWaitMs(status.attemptNumber)
    ELSE 0

init(date, INITIAL_ELM_COMPILED_TIMESTAMP) ==
    [model |-> [status |-> [tag |-> "Connecting", date |-> date, attemptNumber |-> 1],
                elmCompiledTimestamp |-> INITIAL_ELM_COMPILED_TIMESTAMP,
                canHotReload |-> FALSE,
                uiExpanded |-> FALSE],
     cmds |-> <<>>]

\* A slip: the new connection attempt is counted as the first.
reconnect_FirstAttempt(m, date, force) ==
    IF /\ m.status.tag = "SleepingBeforeReconnect"
       /\ \/ date - m.status.date >= retryWaitMs(m.status.attemptNumber)
          \/ force
    THEN [model |-> [m EXCEPT !.status =
                        [tag |-> "Connecting", date |-> date, attemptNumber |-> 1]],
          cmds |-> <<[tag |-> "Reconnect",
                      elmCompiledTimestamp |-> m.elmCompiledTimestamp]>>]
    ELSE [model |-> m, cmds |-> <<>>]

\* A slip: a forced wake waits for the time to pass like any other.
reconnect_IgnoresForce(m, date, force) ==
    IF /\ m.status.tag = "SleepingBeforeReconnect"
       /\ date - m.status.date >= retryWaitMs(m.status.attemptNumber)
    THEN [model |-> [m EXCEPT !.status =
                        [tag |-> "Connecting", date |-> date,
                         attemptNumber |-> m.status.attemptNumber]],
          cmds |-> <<[tag |-> "Reconnect",
                      elmCompiledTimestamp |-> m.elmCompiledTimestamp]>>]
    ELSE [model |-> m, cmds |-> <<>>]

\* A slip: a connection that is still being opened is taken for a closed one.
reconnect_WhileConnecting(m, date, force) ==
    IF /\ m.status.tag \in {"SleepingBeforeReconnect", "Connecting"}
       /\ \/ date - m.status.date >= retryWaitMs(m.status.attemptNumber)
          \/ force
    THEN [model |-> [m EXCEPT !.status =
                        [tag |-> "Connecting", date |-> date,
                         attemptNumber |-> m.status.attemptNumber]],
          cmds |-> <<[tag |-> "Reconnect",
                      elmCompiledTimestamp |-> m.elmCompiledTimestamp]>>]
    ELSE [model |-> m, cmds |-> <<>>]

\* A slip: the time that has passed is not looked at.
reconnect_NoElapsedCheck(m, date, force) ==
    IF m.status.tag = "SleepingBeforeReconnect"
    THEN [model |-> [m EXCEPT !.status =
                        [tag |-> "Connecting", date |-> date,
                         attemptNumber |-> m.status.attemptNumber]],
          cmds |-> <<[tag |-> "Reconnect",
                      elmCompiledTimestamp |-> m.elmCompiledTimestamp]>>]
    ELSE [model |-> m, cmds |-> <<>>]

reconnect(m, date, force) ==
    IF /\ m.status.tag = "SleepingBeforeReconnect"
       /\ \/ date - m.status.date >= retryWaitMs(m.status.attemptNumber)
          \/ force
    THEN [model |-> [m EXCEPT !.status =
                        [tag |-> "Connecting", date |-> date,
                         attemptNumber |-> m.status.attemptNumber]],
          cmds |-> <<[tag |-> "Reconnect",
                      elmCompiledTimestamp |-> m.elmCompiledTimestamp]>>]
    ELSE [model |-> m, cmds |-> <<>>]

\* A slip: an error that is shown is kept until the connection is made anew.
statusChanged_StickyError(date, msg, m) ==
    CASE m.status.tag = "UnexpectedError" -> m
      [] m.status.tag # "UnexpectedError" /\ msg.status.tag = "AlreadyUpToDate" ->
           [m EXCEPT !.status = [tag |-> "Idle", date |-> date,
                                 sendKey |-> SEND_KEY_DO_NOT_USE_ALL_THE_TIME],
                     !.canHotReload = TRUE]
      [] m.status.tag # "UnexpectedError" /\ msg.status.tag = "Busy" ->
           [m EXCEPT !.status = [tag |-> "Busy", date |-> date,
                                 compilationMode |-> msg.status.compilationMode]]
      [] m.status.tag # "UnexpectedError" /\ msg.status.tag = "ClientError" ->
           [m EXCEPT !.status = [tag |-> "UnexpectedError", date |-> date,
                                 message |-> msg.status.message],
                     !.uiExpanded = TRUE]
      [] m.status.tag # "UnexpectedError" /\ msg.status.tag = "CompileError" ->
           [m EXCEPT !.status = [tag |-> "CompileError", date |-> date]]

\* A slip: every status but an error lets the page hot reload.
statusChanged_BusyEnablesHotReload(date, msg, m) ==
    CASE msg.status.tag = "AlreadyUpToDate" ->
           [m EXCEPT !.status = [tag |-> "Idle", date |-> date,
                                 sendKey |-> SEND_KEY_DO_NOT_USE_ALL_THE_TIME],
                     !.canHotReload = TRUE]
      [] msg.status.tag = "Busy" ->
           [m EXCEPT !.status = [tag |-> "Busy", date |-> date,
                                 compilationMode |-> msg.status.compilationMode],
                     !.canHotReload = TRUE]
      [] msg.status.tag = "ClientError" ->
           [m EXCEPT !.status = [tag |-> "UnexpectedError", date |-> date,
                                 message |-> msg.status.message],
                     !.uiExpanded = TRUE]
      [] msg.status.tag = "CompileError" ->
           [m EXCEPT !.status = [tag |-> "CompileError", date |-> date]]

\* A slip: the error of the client is shown without opening the widget.
statusChanged_ClientErrorCollapsed(date, msg, m) ==
    CASE msg.status.tag = "AlreadyUpToDate" ->
           [m EXCEPT !.status = [tag |-> "Idle", date |-> date,
                                 sendKey |-> SEND_KEY_DO_NOT_USE_ALL_THE_TIME],
                     !.canHotReload = TRUE]
      [] msg.status.tag = "Busy" ->
           [m EXCEPT !.status = [tag |-> "Busy", date |-> date,
                                 compilationMode |-> msg.status.compilationMode]]
      [] msg.status.tag = "ClientError" ->
           [m EXCEPT !.status = [tag |-> "UnexpectedError", date |-> date,
                                 message |-> msg.status.message]]
      [] msg.status.tag = "CompileError" ->
           [m EXCEPT !.status = [tag |-> "CompileError", date |-> date]]

statusChanged(date, msg, m) ==
    CASE msg.status.tag = "AlreadyUpToDate" ->
           [m EXCEPT !.status = [tag |-> "Idle", date |-> date,
                                 sendKey |-> SEND_KEY_DO_NOT_USE_ALL_THE_TIME],
                     !.canHotReload = TRUE]
      [] msg.status.tag = "Busy" ->
           [m EXCEPT !.status = [tag |-> "Busy", date |-> date,
                                 compilationMode |-> msg.status.compilationMode]]
      [] msg.status.tag = "ClientError" ->
           [m EXCEPT !.status = [tag |-> "UnexpectedError", date |-> date,
                                 message |-> msg.status.message],
                     !.uiExpanded = TRUE]
      [] msg.status.tag = "CompileError" ->
           [m EXCEPT !.status = [tag |-> "CompileError", date |-> date]]

\* A slip: && for ||.
onWebSocketToClientMessage_AndGate(date, msg, m) ==
    CASE msg.tag = "StatusChanged" ->
           [model |-> statusChanged(date, msg, m), cmds |-> <<>>]
      [] msg.tag = "SuccessfullyCompiled" ->
           IF ~m.canHotReload /\ msg.compilationMode # COMPILATION_MODE
           THEN [model |-> m, cmds |-> <<[tag |-> "ReloadPage"]>>]
           ELSE [model |-> [m EXCEPT
                              !.status = [tag |-> "Idle", date |-> date,
                                          sendKey |-> SEND_KEY_DO_NOT_USE_ALL_THE_TIME],
                              !.elmCompiledTimestamp = msg.elmCompiledTimestamp],
                 cmds |-> <<[tag |-> "Eval", code |-> msg.code]>>]

\* A slip: the timestamp is stored before the page is reloaded.
onWebSocketToClientMessage_ReloadStoresTimestamp(date, msg, m) ==
    CASE msg.tag = "StatusChanged" ->
           [model |-> statusChanged(date, msg, m), cmds |-> <<>>]
      [] msg.tag = "SuccessfullyCompiled" ->
           IF ~m.canHotReload \/ msg.compilationMode # COMPILATION_MODE
           THEN [model |-> [m EXCEPT
                              !.elmCompiledTimestamp = msg.elmCompiledTimestamp],
                 cmds |-> <<[tag |-> "ReloadPage"]>>]
           ELSE [model |-> [m EXCEPT
                              !.status = [tag |-> "Idle", date |-> date,
                                          sendKey |-> SEND_KEY_DO_NOT_USE_ALL_THE_TIME],
                              !.elmCompiledTimestamp = msg.elmCompiledTimestamp],
                 cmds |-> <<[tag |-> "Eval", code |-> msg.code]>>]

\* A slip: the new timestamp is not stored.
onWebSocketToClientMessage_KeepTimestamp(date, msg, m) ==
    CASE msg.tag = "StatusChanged" ->
           [model |-> statusChanged(date, msg, m), cmds |-> <<>>]
      [] msg.tag = "SuccessfullyCompiled" ->
           IF ~m.canHotReload \/ msg.compilationMode # COMPILATION_MODE
           THEN [model |-> m, cmds |-> <<[tag |-> "ReloadPage"]>>]
           ELSE [model |-> [m EXCEPT
                              !.status = [tag |-> "Idle", date |-> date,
                                          sendKey |-> SEND_KEY_DO_NOT_USE_ALL_THE_TIME]],
                 cmds |-> <<[tag |-> "Eval", code |-> msg.code]>>]

\* A slip: the mode the code was compiled in is not compared.
onWebSocketToClientMessage_AnyMode(date, msg, m) ==
    CASE msg.tag = "StatusChanged" ->
           [model |-> statusChanged(date, msg, m), cmds |-> <<>>]
      [] msg.tag = "SuccessfullyCompiled" ->
           IF ~m.canHotReload
           THEN [model |-> m, cmds |-> <<[tag |-> "ReloadPage"]>>]
           ELSE [model |-> [m EXCEPT
                              !.status = [tag |-> "Idle", date |-> date,
                                          sendKey |-> SEND_KEY_DO_NOT_USE_ALL_THE_TIME],
                              !.elmCompiledTimestamp = msg.elmCompiledTimestamp],
                 cmds |-> <<[tag |-> "Eval", code |-> msg.code]>>]

onWebSocketToClientMessage(date, msg, m) ==
    CASE msg.tag = "StatusChanged" ->
           [model |-> statusChanged(date, msg, m), cmds |-> <<>>]
      [] msg.tag = "SuccessfullyCompiled" ->
           IF ~m.canHotReload \/ msg.compilationMode # COMPILATION_MODE
           THEN [model |-> m, cmds |-> <<[tag |-> "ReloadPage"]>>]
           ELSE [model |-> [m EXCEPT
                              !.status = [tag |-> "Idle", date |-> date,
                                          sendKey |-> SEND_KEY_DO_NOT_USE_ALL_THE_TIME],
                              !.elmCompiledTimestamp = msg.elmCompiledTimestamp],
                 cmds |-> <<[tag |-> "Eval", code |-> msg.code]>>]

\* A slip: the mode that was chosen is not kept in the status.
onUiMsg_BusyWithoutMode(date, msg, m) ==
    CASE msg.tag = "ChangedCompilationMode" ->
           [model |-> [m EXCEPT !.status = [tag |-> "Busy", date |-> date]],
            cmds |-> <<[tag |-> "SendMessage",
                        message |-> [tag |-> "ChangedCompilationMode",
                                     compilationMode |-> msg.compilationMode],
                        sendKey |-> msg.sendKey]>>]
      [] msg.tag = "PressedChevron" ->
           [model |-> [m EXCEPT !.uiExpanded = ~m.uiExpanded], cmds |-> <<>>]
      [] msg.tag = "PressedReconnectNow" ->
           reconnect(m, date, TRUE)

onUiMsg(date, msg, m) ==
    CASE msg.tag = "ChangedCompilationMode" ->
           [model |-> [m EXCEPT !.status =
                          [tag |-> "Busy", date |-> date,
                           compilationMode |-> msg.compilationMode]],
            cmds |-> <<[tag |-> "SendMessage",
                        message |-> [tag |-> "ChangedCompilationMode",
                                     compilationMode |-> msg.compilationMode],
                        sendKey |-> msg.sendKey]>>]
      [] msg.tag = "PressedChevron" ->
           [model |-> [m EXCEPT !.uiExpanded = ~m.uiExpanded], cmds |-> <<>>]
      [] msg.tag = "PressedReconnectNow" ->
           reconnect(m, date, TRUE)

\* A slip: the attempt number of a status that has none is taken to be 1.
nextAttemptNumber_CountFromOne(status) ==
    IF "attemptNumber" \in DOMAIN status THEN status.attemptNumber + 1 ELSE 2

\* A slip: the attempt number of the status is kept as it is.
nextAttemptNumber_SameAttempt(status) ==
    IF "attemptNumber" \in DOMAIN status THEN status.attemptNumber ELSE 1

\* const attemptNumber = ... in the WebSocketClosed case of update
nextAttemptNumber(status) ==
    IF "attemptNumber" \in DOMAIN status THEN status.attemptNumber + 1 ELSE 1

\* A slip: the widget is not expanded.
evalErrored_StaysCollapsed(date, m) ==
    [model |-> [m EXCEPT !.status = [tag |-> "EvalError", date |-> date]],
     cmds |-> <<>>]

\* A slip: the timestamp of the code that threw is dropped.
evalErrored_DropsTimestamp(date, m) ==
    [model |-> [m EXCEPT !.status = [tag |-> "EvalError", date |-> date],
                         !.uiExpanded = TRUE,
                         !.elmCompiledTimestamp = 0],
     cmds |-> <<>>]

\* The EvalErrored case of update.
evalErrored(date, m) ==
    [model |-> [m EXCEPT !.status = [tag |-> "EvalError", date |-> date],
                         !.uiExpanded = TRUE],
     cmds |-> <<>>]

\* A slip: the tab tells the server while it waits for a compilation too.
focusedTab_AlsoWhenBusy(m) ==
    [model |-> m,
     cmds |-> IF m.status.tag \in {"Idle", "Busy"}
              THEN <<[tag |-> "SendMessage",
                      message |-> [tag |-> "FocusedTab"],
                      sendKey |-> SEND_KEY_DO_NOT_USE_ALL_THE_TIME]>>
              ELSE <<>>]

\* The FocusedTab case of update.
focusedTab(m) ==
    [model |-> m,
     cmds |-> IF m.status.tag = "Idle"
              THEN <<[tag |-> "SendMessage",
                      message |-> [tag |-> "FocusedTab"],
                      sendKey |-> m.status.sendKey]>>
              ELSE <<>>]

\* A slip: a page that is idle takes no notice of its connection closing.
webSocketClosed_IdleSurvives(date, m) ==
    IF m.status.tag = "Idle"
    THEN [model |-> m, cmds |-> <<>>]
    ELSE LET attemptNumber == nextAttemptNumber(m.status)
         IN [model |-> [m EXCEPT !.status =
                           [tag |-> "SleepingBeforeReconnect", date |-> date,
                            attemptNumber |-> attemptNumber]],
             cmds |-> <<[tag |-> "SleepBeforeReconnect",
                         attemptNumber |-> attemptNumber]>>]

\* A slip: a page whose connection closed is no longer taken to be up to date.
webSocketClosed_ForgetsHotReload(date, m) ==
    LET attemptNumber == nextAttemptNumber(m.status)
    IN [model |-> [m EXCEPT !.status =
                      [tag |-> "SleepingBeforeReconnect", date |-> date,
                       attemptNumber |-> attemptNumber],
                            !.canHotReload = FALSE],
        cmds |-> <<[tag |-> "SleepBeforeReconnect",
                    attemptNumber |-> attemptNumber]>>]

\* The WebSocketClosed case of update.
webSocketClosed(date, m) ==
    LET attemptNumber == nextAttemptNumber(m.status)
    IN [model |-> [m EXCEPT !.status =
                      [tag |-> "SleepingBeforeReconnect", date |-> date,
                       attemptNumber |-> attemptNumber]],
        cmds |-> <<[tag |-> "SleepBeforeReconnect",
                    attemptNumber |-> attemptNumber]>>]

\* A slip: a connection that opens is taken for an up-to-date page.
webSocketConnected_HotReloads(date, m) ==
    [model |-> [m EXCEPT !.status = [tag |-> "Busy", date |-> date],
                         !.canHotReload = TRUE],
     cmds |-> <<>>]

\* The WebSocketConnected case of update.
webSocketConnected(date, m) ==
    [model |-> [m EXCEPT !.status = [tag |-> "Busy", date |-> date]],
     cmds |-> <<>>]

update(msg, m) ==
    CASE msg.tag = "EvalErrored" ->
           evalErrored(msg.date, m)
      [] msg.tag = "FocusedTab" ->
           focusedTab(m)
      [] msg.tag = "PageVisibilityChangedToVisible" ->
           reconnect(m, msg.date, TRUE)
      [] msg.tag = "SleepBeforeReconnectDone" ->
           reconnect(m, msg.date, FALSE)
      [] msg.tag = "UiMsg" ->
           onUiMsg(msg.date, msg.msg, m)
      [] msg.tag = "WebSocketClosed" ->
           webSocketClosed(msg.date, m)
      [] msg.tag = "WebSocketConnected" ->
           webSocketConnected(msg.date, m)
      [] msg.tag = "WebSocketMessageReceived" ->
           LET result == parseWebSocketMessageData(msg.data)
           IN IF result.tag = "Success"
              THEN onWebSocketToClientMessage(msg.date, result.message, m)
              ELSE [model |-> [m EXCEPT
                                 !.status = [tag |-> "UnexpectedError",
                                             date |-> msg.date,
                                             message |-> result.message],
                                 !.uiExpanded = TRUE],
                    cmds |-> <<>>]

----------------------------------------------------------------------------
(* The view: which handlers the rendered widget carries *)

\* What checkInitializedElmAppsStatus can report at a render.
InitializedElmAppsStatus ==
    {[tag |-> "DebuggerModeStatus", status |-> [tag |-> "Enabled"]],
     [tag |-> "DebuggerModeStatus", status |-> [tag |-> "Disabled"]],
     [tag |-> "NoProgramsAtAll"]}

\* The modes whose radio button can be chosen and carries an onchange handler:
\* not disabled, and not the one that is checked already.
viewCompilationModeChooser(sendKey, selectedMode, initializedElmAppsStatus) ==
    IF initializedElmAppsStatus.tag # "DebuggerModeStatus" \/ sendKey = undefined
    THEN {}
    ELSE {mode \in CompilationMode :
            /\ mode # selectedMode
            /\ mode = "debug" => initializedElmAppsStatus.status.tag = "Enabled"}

\* A slip: the chooser of Busy is handed a key too.
viewStatus_KeyWhenBusy(status) ==
    CASE status.tag \in {"Busy", "Idle"} ->
           [sendKey |-> SEND_KEY_DO_NOT_USE_ALL_THE_TIME, reconnectNow |-> FALSE]
      [] status.tag = "SleepingBeforeReconnect" ->
           [sendKey |-> undefined, reconnectNow |-> TRUE]
      [] OTHER -> [sendKey |-> undefined, reconnectNow |-> FALSE]

\* sendKey: the key handed to the chooser; reconnectNow: the button is there.
viewStatus(status) ==
    CASE status.tag = "Busy" -> [sendKey |-> undefined, reconnectNow |-> FALSE]
      [] status.tag = "Idle" -> [sendKey |-> status.sendKey, reconnectNow |-> FALSE]
      [] status.tag = "SleepingBeforeReconnect" ->
           [sendKey |-> undefined, reconnectNow |-> TRUE]
      [] OTHER -> [sendKey |-> undefined, reconnectNow |-> FALSE]

\* The content of a status is in the page only while the widget is expanded.
view(m, compilationMode, initializedElmAppsStatus) ==
    LET statusData == viewStatus(m.status)
    IN [attached |-> TRUE,
        sendKey |-> statusData.sendKey,
        modes |-> IF m.uiExpanded
                  THEN viewCompilationModeChooser(statusData.sendKey, compilationMode,
                                                  initializedElmAppsStatus)
                  ELSE {},
        reconnectNow |-> m.uiExpanded /\ statusData.reconnectNow]

\* targetRoot.remove(): no handler is left for the user to trigger.
NoDom == [attached |-> FALSE, sendKey |-> undefined, modes |-> {},
          reconnectNow |-> FALSE]

----------------------------------------------------------------------------
(* Commands *)

FreeSockets(s) == {i \in 1..MaxSockets : s[i] \in {"NONE", "CLOSED"}}

\* new WebSocket(url): a new object, connecting.  NoSocket if the model has no
\* room for one more object.
NoSocket == 0
initWebSocket(s) ==
    IF FreeSockets(s) = {} THEN NoSocket
    ELSE CHOOSE i \in FreeSockets(s) : \A j \in FreeSockets(s) : i <= j

\* webSocket.close()
closeCall(readyState) ==
    IF readyState \in {"CONNECTING", "OPEN"} THEN "CLOSING" ELSE readyState

\* A slip: no timer is armed.
setTimeout_Forget(ts, ms) == ts

\* setTimeout(callback, ms).  The armed timers are kept in the order in which
\* they fall due; which of the due ones fires first is open all the same.
setTimeout(ts, ms) ==
    LET k == Cardinality({i \in 1..Len(ts) : ts[i] <= ms})
    IN [i \in 1..(Len(ts) + 1) |->
          IF i <= k THEN ts[i] ELSE IF i = k + 1 THEN ms ELSE ts[i - 1]]

\* A slip: the reload is called at once where it was to wait for the close.
runCmd_ReloadAtOnce(cmd, E, throws, apps) ==
    CASE cmd.tag = "Eval" ->
           IF throws
           THEN [E EXCEPT !.msgQueue = Append(@, [tag |-> "EvalErrored", date |-> Now])]
           ELSE E
      [] cmd.tag = "Reconnect" ->
           LET ws == initWebSocket(E.sockets)
           IN IF ws = NoSocket THEN [E EXCEPT !.overflow = TRUE]
              ELSE [E EXCEPT !.sockets[ws] = "CONNECTING",
                             !.reloadOnClose = @ \ {ws},
                             !.mutable.webSocket = ws]
      [] cmd.tag = "ReloadPage" ->
           IF stubbedReload
           THEN [E EXCEPT !.reloadCalled = TRUE,
                          !.mutable.listeners = FALSE,
                          !.sockets[E.mutable.webSocket] = closeCall(@),
                          !.dom = NoDom,
                          !.killed = TRUE]
           ELSE [E EXCEPT !.reloadCalled = TRUE]
      [] cmd.tag = "Render" ->
           [E EXCEPT !.dom = view(cmd.model, COMPILATION_MODE, apps)]
      [] cmd.tag = "SendMessage" ->
           E
      [] cmd.tag = "SleepBeforeReconnect" ->
           [E EXCEPT !.timers = setTimeout(@, retryWaitMs(cmd.attemptNumber))]

\* E holds the page's mutable state while the commands of one message run.
runCmd(cmd, E, throws, apps) ==
    CASE cmd.tag = "Eval" ->
           IF throws
           THEN [E EXCEPT !.msgQueue = Append(@, [tag |-> "EvalErrored", date |-> Now])]
           ELSE E
      [] cmd.tag = "Reconnect" ->
           LET ws == initWebSocket(E.sockets)
           IN IF ws = NoSocket THEN [E EXCEPT !.overflow = TRUE]
              ELSE [E EXCEPT !.sockets[ws] = "CONNECTING",
                             !.reloadOnClose = @ \ {ws},
                             !.mutable.webSocket = ws]
      [] cmd.tag = "ReloadPage" ->
           IF stubbedReload
           THEN [E EXCEPT !.reloadOnClose =
                             IF E.sockets[E.mutable.webSocket] = "CLOSED"
                             THEN @ ELSE @ \cup {E.mutable.webSocket},
                          !.mutable.listeners = FALSE,
                          !.sockets[E.mutable.webSocket] = closeCall(@),
                          !.dom = NoDom,
                          !.killed = TRUE]
           ELSE [E EXCEPT !.reloadCalled = TRUE]
      [] cmd.tag = "Render" ->
           [E EXCEPT !.dom = view(cmd.model, COMPILATION_MODE, apps)]
      [] cmd.tag = "SendMessage" ->
           E
      [] cmd.tag = "SleepBeforeReconnect" ->
           [E EXCEPT !.timers = setTimeout(@, retryWaitMs(cmd.attemptNumber))]

\* The program loop runs the commands in order and stops once it is resolved.
RECURSIVE runCmds(_, _, _, _)
runCmds(cs, E, throws, apps) ==
    IF cs = <<>> \/ E.killed THEN E
    ELSE runCmds(Tail(cs), runCmd(Head(cs), E, throws, apps), throws, apps)

----------------------------------------------------------------------------
(* The program loop *)

Cur == [mutable |-> mutable, sockets |-> sockets, reloadOnClose |-> reloadOnClose,
        timers |-> timers, msgQueue |-> msgQueue, killed |-> killed,
        reloadCalled |-> reloadCalled, dom |-> dom, overflow |-> FALSE]

Apply(E) ==
    /\ ~E.overflow
    /\ mutable' = E.mutable
    /\ sockets' = E.sockets
    /\ reloadOnClose' = E.reloadOnClose
    /\ timers' = E.timers
    /\ msgQueue' = E.msgQueue
    /\ killed' = E.killed
    /\ reloadCalled' = E.reloadCalled
    /\ dom' = E.dom

AttemptOf(m, old) ==
    IF "attemptNumber" \in DOMAIN m.status THEN m.status.attemptNumber ELSE old

\* A step in which no message is processed; E is the page state it leaves.
NoDispatch(E) ==
    /\ Apply(E)
    /\ lastMsg' = NoMsg
    /\ cmds' = <<>>
    /\ UNCHANGED <<COMPILATION_MODE, stubbedReload, lastAttempt, calls>>

\* The models never close a connection past the bounds.
WithinBounds(msg) ==
    msg.tag = "WebSocketClosed" =>
        /\ Len(timers) < MaxTimers
        /\ "attemptNumber" \in DOMAIN model.status
              => model.status.attemptNumber < MaxAttempt

\* Whether the evaluated code throws is the code's business: both can happen.
EvalOutcomes(cs) ==
    IF \E i \in 1..Len(cs) : cs[i].tag = "Eval" THEN BOOLEAN ELSE {FALSE}

\* What window.Elm holds at a render shows only where the expanded view has a
\* chooser with a key.
RenderInputs(m) ==
    IF m.uiExpanded /\ viewStatus(m.status).sendKey # undefined
    THEN InitializedElmAppsStatus
    ELSE {[tag |-> "NoProgramsAtAll"]}

\* dispatch(msg) with the page state E the event left: update, then every
\* command in order, then the render of the new model.
Dispatch(msg, E) ==
    IF killed
    THEN /\ NoDispatch(E)
         /\ UNCHANGED model
    ELSE /\ WithinBounds(msg)
         /\ LET r == update(msg, model)
                render == [tag |-> "Render", model |-> r.model]
            IN /\ model' = r.model
               /\ cmds' = r.cmds
               /\ \E throws \in EvalOutcomes(r.cmds), apps \in RenderInputs(r.model) :
                    Apply(runCmds(r.cmds \o <<render>>, E, throws, apps))
         /\ lastMsg' = msg
         /\ lastAttempt' = AttemptOf(model', lastAttempt)
         /\ UNCHANGED <<COMPILATION_MODE, stubbedReload, calls>>

\* An event is handled when no message is being processed.  Once the reload
\* has been called the page is on its way out: what happens next is PageLoad.
Ready == msgQueue = <<>> /\ ~reloadCalled

\* A message dispatched while another was processed is processed right after it.
ProcessQueued ==
    /\ msgQueue # <<>>
    /\ Dispatch(Head(msgQueue), [Cur EXCEPT !.msgQueue = Tail(msgQueue)])
    /\ UNCHANGED visible

----------------------------------------------------------------------------
(* Events of the page *)

\* The "open" event of a socket.
SocketOpen(ws) ==
    /\ Ready
    /\ sockets[ws] = "CONNECTING"
    /\ Dispatch([tag |-> "WebSocketConnected", date |-> Now],
                [Cur EXCEPT !.sockets[ws] = "OPEN"])
    /\ UNCHANGED visible

\* The "close" event of a socket: the dispatching listener first, then the
\* listener ReloadPage added, if any.
SocketClose(ws) ==
    /\ Ready
    /\ sockets[ws] \in {"CONNECTING", "OPEN", "CLOSING"}
    /\ Dispatch([tag |-> "WebSocketClosed", date |-> Now],
                [Cur EXCEPT !.sockets[ws] = "CLOSED",
                            !.reloadOnClose = @ \ {ws},
                            !.reloadCalled = @ \/ ws \in reloadOnClose])
    /\ UNCHANGED visible

\* The "message" event of a socket.
SocketMessage(ws, data) ==
    /\ Ready
    /\ sockets[ws] = "OPEN"
    /\ Dispatch([tag |-> "WebSocketMessageReceived", date |-> Now, data |-> data], Cur)
    /\ UNCHANGED visible

\* A timer that is due fires, at once or later.
RemoveAt(s, i) == [j \in 1..(Len(s) - 1) |-> IF j < i THEN s[j] ELSE s[j + 1]]

\* A slip: the timer dispatches whether the page is visible or not.
TimerFire_IgnoresVisibility(i) ==
    /\ Ready
    /\ i \in 1..Len(timers)
    /\ timers[i] = 0
    /\ Dispatch([tag |-> "SleepBeforeReconnectDone", date |-> Now],
                [Cur EXCEPT !.timers = RemoveAt(timers, i)])
    /\ UNCHANGED visible

TimerFire(i) ==
    /\ Ready
    /\ i \in 1..Len(timers)
    /\ timers[i] = 0
    /\ LET E == [Cur EXCEPT !.timers = RemoveAt(timers, i)]
       IN IF visible
          THEN Dispatch([tag |-> "SleepBeforeReconnectDone", date |-> Now], E)
          ELSE NoDispatch(E) /\ UNCHANGED model
    /\ UNCHANGED visible

WindowFocus ==
    /\ Ready
    /\ mutable.listeners
    /\ Dispatch([tag |-> "FocusedTab"], Cur)
    /\ UNCHANGED visible

VisibilityChange ==
    /\ Ready
    /\ visible' = ~visible
    /\ IF ~visible /\ mutable.listeners
       THEN Dispatch([tag |-> "PageVisibilityChangedToVisible", date |-> Now], Cur)
       ELSE NoDispatch(Cur) /\ UNCHANGED model

UiMsg(msg) == [tag |-> "UiMsg", date |-> Now, msg |-> msg]

PressChevron ==
    /\ Ready
    /\ dom.attached
    /\ Dispatch(UiMsg([tag |-> "PressedChevron"]), Cur)
    /\ UNCHANGED visible

PressReconnectNow ==
    /\ Ready
    /\ dom.reconnectNow
    /\ Dispatch(UiMsg([tag |-> "PressedReconnectNow"]), Cur)
    /\ UNCHANGED visible

ChangeCompilationMode(mode) ==
    /\ Ready
    /\ mode \in dom.modes
    /\ Dispatch(UiMsg([tag |-> "ChangedCompilationMode", compilationMode |-> mode,
                       sendKey |-> dom.sendKey]), Cur)
    /\ UNCHANGED visible

\* TickMs milliseconds pass.
Older(status) ==
    [status EXCEPT !.date = Max(@ - TickMs, 0 - DateHorizon(status))]

Tick ==
    /\ Ready
    /\ model' = [model EXCEPT !.status = Older(@)]
    /\ NoDispatch([Cur EXCEPT !.timers =
                     [i \in 1..Len(timers) |-> Max(timers[i] - TickMs, 0)]])
    /\ UNCHANGED visible

----------------------------------------------------------------------------
(* Page load *)

Fresh(mode, stubbed, timestamp) ==
    /\ model' = init(Now, timestamp).model
    /\ mutable' = [webSocket |-> 1, listeners |-> TRUE]
    /\ sockets' = [i \in 1..MaxSockets |-> IF i = 1 THEN "CONNECTING" ELSE "NONE"]
    /\ reloadOnClose' = {}
    /\ timers' = <<>>
    /\ visible' = visible
    /\ msgQueue' = <<>>
    /\ killed' = FALSE
    /\ reloadCalled' = FALSE
    /\ dom' = view(model', mode, [tag |-> "NoProgramsAtAll"])
    /\ COMPILATION_MODE' = mode
    /\ stubbedReload' = stubbed
    /\ lastMsg' = InitMsg
    /\ cmds' = <<>>
    /\ lastAttempt' = 1
    /\ UNCHANGED calls

\* The reload that was asked for happens: the page and all it held are gone,
\* and the script runs again in the page that replaces it.
PageLoad ==
    /\ reloadCalled
    /\ \E mode \in PageModes, timestamp \in Stamps :
         Fresh(mode, stubbedReload, timestamp)

\* The page once the script has run, compiled in one of the given modes.
InitPageIn(modes) ==
    /\ COMPILATION_MODE \in modes
    /\ stubbedReload \in BOOLEAN
    /\ \E timestamp \in Stamps : model = init(Now, timestamp).model
    /\ mutable = [webSocket |-> 1, listeners |-> TRUE]
    /\ sockets = [i \in 1..MaxSockets |-> IF i = 1 THEN "CONNECTING" ELSE "NONE"]
    /\ reloadOnClose = {}
    /\ timers = <<>>
    /\ visible = TRUE
    /\ msgQueue = <<>>
    /\ killed = FALSE
    /\ reloadCalled = FALSE
    /\ dom = view(model, COMPILATION_MODE, [tag |-> "NoProgramsAtAll"])
    /\ lastMsg = InitMsg
    /\ cmds = <<>>
    /\ lastAttempt = 1

InitPage == InitPageIn(PageModes)

Init ==
    /\ InitPage
    /\ attemptIn = 0
    /\ waitMs = 0
    /\ existing = [typeof |-> "undefined"]
    /\ trap = NoTrap
    /\ trapResult = NoTrap
    /\ Elm = [typeof |-> "undefined"]
    /\ appsStatus = NoTrap

Next ==
    \/ ProcessQueued
    \/ \E ws \in 1..MaxSockets : SocketOpen(ws)
    \/ \E ws \in 1..MaxSockets : SocketClose(ws)
    \/ \E ws \in 1..MaxSockets, data \in WebSocketData : SocketMessage(ws, data)
    \/ \E i \in 1..MaxTimers : TimerFire(i)
    \/ WindowFocus
    \/ VisibilityChange
    \/ PressChevron
    \/ PressReconnectNow
    \/ \E mode \in CompilationMode : ChangeCompilationMode(mode)
    \/ Tick
    \/ PageLoad

Spec == Init /\ [][Next]_vars

\* Time passes, a due timer fires, a queued message is processed and a reload
\* that was called happens.
LiveSpec ==
    /\ Spec
    /\ WF_vars(Tick)
    /\ WF_vars(\E i \in 1..MaxTimers : TimerFire(i))
    /\ WF_vars(ProcessQueued)
    /\ WF_vars(PageLoad)

----------------------------------------------------------------------------
(* retryWaitMs on its own: every attempt number up to MaxCheckedAttempt *)

page == <<model, mutable, sockets, reloadOnClose, timers, visible, msgQueue, killed,
          reloadCalled, dom, COMPILATION_MODE, stubbedReload, lastMsg, cmds,
          lastAttempt>>

InitWait ==
    /\ Init
    /\ COMPILATION_MODE = "standard"
    /\ ~stubbedReload
    /\ model.elmCompiledTimestamp = 41

CallRetryWaitMs ==
    /\ \E attemptNumber \in 1..MaxCheckedAttempt :
         /\ attemptIn' = attemptNumber
         /\ waitMs' = retryWaitMs(attemptNumber)
    /\ UNCHANGED <<page, existing, trap, trapResult, Elm, appsStatus>>

SpecWait == InitWait /\ [][CallRetryWaitMs]_vars

----------------------------------------------------------------------------
(* The stub's guard of window.Elm (proxy.ts): every trap on its own *)

\* const error = new Error(...): the one error every trap throws.
error == "Certain parts of `window.Elm` aren't available yet! That's fine though!"

\* Values a property can hold.
MainModule == "{ init }"
ObjectPrototypeToString == "function toString() { [native code] }"
PropertyValues == {MainModule, undefined}

\* Property names, character by character.
Main == <<"M", "a", "i", "n">>
Worker == <<"W", "o", "r", "k", "e", "r">>
isMockFunction == <<"_", "i", "s", "M", "o", "c", "k", "F", "u", "n", "c", "t", "i", "o", "n">>
toString == <<"t", "o", "S", "t", "r", "i", "n", "g">>

\* Names that are asked for.
Properties == {Main, Worker, isMockFunction, toString}

\* Names an object found in window.Elm can have as its own.
OwnProperties == {Main, isMockFunction}

\* An ordinary object: its own properties; it inherits from Object.prototype.
Objects ==
    UNION {[names -> PropertyValues] : names \in SUBSET OwnProperties}

\* What the script can find in window.Elm: nothing, null, a string, an object.
ExistingValues ==
    {[typeof |-> "undefined"], [typeof |-> "object", null |-> TRUE],
     [typeof |-> "string"]}
    \cup {[typeof |-> "object", null |-> FALSE, properties |-> o] : o \in Objects}

\* typeof existing === "object" && existing !== null ? existing : undefined
existingObject(value) ==
    IF value.typeof = "object" /\ ~value.null THEN value ELSE [typeof |-> "undefined"]

\* existingObject ?? {}
target(value) ==
    IF existingObject(value).typeof = "undefined" THEN <<>>
    ELSE existingObject(value).properties

\* Reflect.get, Reflect.has and Reflect.getOwnPropertyDescriptor of an
\* ordinary object with data properties.
ReflectGet(object, property) ==
    IF property \in DOMAIN object THEN object[property]
    ELSE IF property = toString THEN ObjectPrototypeToString
    ELSE undefined

ReflectHas(object, property) ==
    property \in DOMAIN object \/ property = toString

\* The undefined that stands where a descriptor is looked for.
NoDescriptor == [typeof |-> "undefined"]

ReflectGetOwnPropertyDescriptor(object, property) ==
    IF property \in DOMAIN object
    THEN [value |-> object[property], writable |-> TRUE,
          enumerable |-> TRUE, configurable |-> TRUE]
    ELSE NoDescriptor

\* property.toString().startsWith(prefix), for a prefix of one character
startsWith(property, prefix) == Len(property) >= 1 /\ property[1] = prefix

return(value) == [tag |-> "return", value |-> value]
throw(e) == [tag |-> "throw", error |-> e]

\* A slip: what is not there is read as undefined.
get_NeverThrows(object, property) == return(ReflectGet(object, property))

get(object, property) ==
    LET value == ReflectGet(object, property)
    IN IF value # undefined \/ startsWith(property, "_")
       THEN return(value)
       ELSE throw(error)

getOwnPropertyDescriptor(object, property) ==
    LET descriptor == ReflectGetOwnPropertyDescriptor(object, property)
    IN IF descriptor # NoDescriptor THEN return(descriptor) ELSE throw(error)

\* A slip: what is not there is reported as not there.
has_ReportsAbsence(object, property) == return(ReflectHas(object, property))

has(object, property) ==
    IF ReflectHas(object, property) THEN return(TRUE) ELSE throw(error)

ownKeys(object) == throw(error)

InitGuard ==
    /\ InitPage
    /\ COMPILATION_MODE = "proxy"
    /\ ~stubbedReload
    /\ model.elmCompiledTimestamp = 41
    /\ attemptIn = 0
    /\ waitMs = 0
    /\ existing \in ExistingValues
    /\ trap = NoTrap
    /\ trapResult = NoTrap
    /\ Elm = [typeof |-> "undefined"]
    /\ appsStatus = NoTrap

\* elmProxy[property]
TrapGet(property) ==
    /\ trap' = [name |-> "get", property |-> property]
    /\ trapResult' = get(target(existing), property)
    /\ UNCHANGED <<page, attemptIn, waitMs, existing, Elm, appsStatus>>

\* Object.getOwnPropertyDescriptor(elmProxy, property)
TrapGetOwnPropertyDescriptor(property) ==
    /\ trap' = [name |-> "getOwnPropertyDescriptor", property |-> property]
    /\ trapResult' = getOwnPropertyDescriptor(target(existing), property)
    /\ UNCHANGED <<page, attemptIn, waitMs, existing, Elm, appsStatus>>

\* property in elmProxy
TrapHas(property) ==
    /\ trap' = [name |-> "has", property |-> property]
    /\ trapResult' = has(target(existing), property)
    /\ UNCHANGED <<page, attemptIn, waitMs, existing, Elm, appsStatus>>

\* Object.keys(elmProxy)
TrapOwnKeys ==
    /\ trap' = [name |-> "ownKeys"]
    /\ trapResult' = ownKeys(target(existing))
    /\ UNCHANGED <<page, attemptIn, waitMs, existing, Elm, appsStatus>>

NextGuard ==
    \/ \E property \in Properties : TrapGet(property)
    \/ \E property \in Properties : TrapGetOwnPropertyDescriptor(property)
    \/ \E property \in Properties : TrapHas(property)
    \/ TrapOwnKeys

SpecGuard == InitGuard /\ [][NextGuard]_vars

----------------------------------------------------------------------------
(* checkInitializedElmAppsStatus on its own: every window.Elm up to the bounds *)

ProgramType ==
    {"Platform.worker", "Browser.sandbox", "Browser.element", "Browser.document",
     "Browser.application", "Html"}

MaxPrograms == 2
MaxFields == 2

Arrays(S, n) == UNION {[1..k -> S] : k \in 0..n}

\* What a field of an Elm module holds: a function (init), the array of the
\* programs that were initialized, each with its __elmWatchProgramType, or
\* something that is neither (here a string).
FieldValues ==
    {[typeof |-> "function"], [typeof |-> "string"]}
      \cup {[typeof |-> "array", items |-> items] :
              items \in Arrays(ProgramType, MaxPrograms)}

\* A module inside window.Elm: nothing, one field, or init and one field.
ElmModules ==
    {[typeof |-> "object", fields |-> fields] :
       fields \in {<<>>} \cup {<<value>> : value \in FieldValues}
                    \cup {<<[typeof |-> "function"], value>> : value \in FieldValues}}

\* The guard the stub puts in window.Elm.
elmProxy == [typeof |-> "proxy"]

\* window.Elm: not there, the stub's guard, or an object whose fields hold
\* modules or what a module's field can hold.
ElmValues ==
    {[typeof |-> "undefined"], elmProxy}
      \cup {[typeof |-> "object", fields |-> fields] :
              fields \in Arrays(FieldValues \cup ElmModules, MaxFields)}

functionToNull(value) ==
    IF value.typeof = "function" THEN [typeof |-> "null"] ELSE value

WindowElmDecoderError == "At root[\"Elm\"]: Expected an object"

Decoded(value) == [ok |-> TRUE, value |-> value]
DecoderError == [ok |-> FALSE,
                 error |-> [instanceof |-> "DecoderError",
                            format |-> WindowElmDecoderError]]

\* Array.prototype.flat
RECURSIVE flat(_)
flat(arrays) ==
    IF arrays = <<>> THEN <<>> ELSE Head(arrays) \o flat(Tail(arrays))

RECURSIVE ElmModule(_)

\* Decode.chain(functionToNull, Decode.multi({null, array, object}))
ElmModuleField(value) ==
    LET v == functionToNull(value)
    IN CASE v.typeof = "null" -> Decoded(<<>>)
         [] v.typeof = "array" -> Decoded(v.items)
         [] v.typeof = "object" -> ElmModule(v)
         [] OTHER -> DecoderError

\* Decode.chain(Decode.record(...), (record) => Object.values(record).flat())
ElmModule(value) ==
    IF value = elmProxy
    THEN [ok |-> FALSE,
          error |-> [instanceof |-> "Error", message |-> ownKeys(<<>>).error]]
    ELSE IF value.typeof # "object" THEN DecoderError
    ELSE LET record == [i \in DOMAIN value.fields |-> ElmModuleField(value.fields[i])]
         IN IF \E i \in DOMAIN record : ~record[i].ok
            THEN DecoderError
            ELSE Decoded(flat([i \in DOMAIN record |-> record[i].value]))

ProgramTypes(window) == ElmModule(window.Elm)

\* new Set(array), in the order a Set keeps: that of the first occurrences.
RECURSIVE newSet(_)
newSet(array) ==
    IF array = <<>> THEN <<>>
    ELSE LET front == newSet(SubSeq(array, 1, Len(array) - 1))
             last == array[Len(array)]
         IN IF \E i \in DOMAIN front : front[i] = last
            THEN front
            ELSE Append(front, last)

\* Array.prototype.join
RECURSIVE join(_, _)
join(list, separator) ==
    IF list = <<>> THEN ""
    ELSE IF Len(list) = 1 THEN list[1]
    ELSE list[1] \o separator \o join(Tail(list), separator)

humanList(list, joinWord) ==
    LET length == Len(list)
    IN IF length <= 1 THEN join(list, "")
       ELSE IF length = 2 THEN join(list, " " \o joinWord \o " ")
       ELSE join(SubSeq(list, 1, length - 2), ",") \o ", "
              \o join(SubSeq(list, length - 1, length), " " \o joinWord \o " ")

\* The mark the source puts on both sides of a program type. It is a grave
\* accent there; a string of this module cannot end in one, so an apostrophe
\* is written in its place.
GraveAccent == "'"

noDebuggerReason(noDebuggerProgramTypes) ==
    "The Elm debugger isn't supported by "
      \o humanList([i \in DOMAIN noDebuggerProgramTypes |->
                      GraveAccent \o noDebuggerProgramTypes[i] \o GraveAccent],
                   "and")
      \o " programs."

\* A slip: one program without debugger support is enough to disable it.
checkInitializedElmAppsStatus_DisabledByAny ==
    LET decoded == ProgramTypes([Elm |-> Elm])
        programTypes == decoded.value
        IsNoDebugger(programType) == programType \in {"Platform.worker", "Html"}
        noDebugger == SelectSeq(programTypes, IsNoDebugger)
    IN IF ~decoded.ok
       THEN IF COMPILATION_MODE = "proxy"
            THEN [tag |-> "DebuggerModeStatus", status |-> [tag |-> "Enabled"]]
            ELSE [tag |-> "DecodeError",
                  message |-> possiblyDecodeErrorToString(decoded.error)]
       ELSE IF Len(programTypes) = 0
       THEN [tag |-> "NoProgramsAtAll"]
       ELSE [tag |-> "DebuggerModeStatus",
             status |-> IF Len(noDebugger) > 0
                        THEN [tag |-> "Disabled",
                              reason |-> noDebuggerReason(newSet(noDebugger))]
                        ELSE [tag |-> "Enabled"]]

\* A slip: the stub is not exempted from the error.
checkInitializedElmAppsStatus_NoExemption ==
    LET decoded == ProgramTypes([Elm |-> Elm])
        programTypes == decoded.value
        IsNoDebugger(programType) == programType \in {"Platform.worker", "Html"}
        noDebugger == SelectSeq(programTypes, IsNoDebugger)
    IN IF ~decoded.ok
       THEN [tag |-> "DecodeError",
             message |-> possiblyDecodeErrorToString(decoded.error)]
       ELSE IF Len(programTypes) = 0
       THEN [tag |-> "NoProgramsAtAll"]
       ELSE [tag |-> "DebuggerModeStatus",
             status |-> IF Len(noDebugger) = Len(programTypes)
                        THEN [tag |-> "Disabled",
                              reason |-> noDebuggerReason(newSet(noDebugger))]
                        ELSE [tag |-> "Enabled"]]

checkInitializedElmAppsStatus ==
    LET decoded == ProgramTypes([Elm |-> Elm])
        programTypes == decoded.value
        IsNoDebugger(programType) == programType \in {"Platform.worker", "Html"}
        noDebugger == SelectSeq(programTypes, IsNoDebugger)
    IN IF ~decoded.ok
       THEN IF COMPILATION_MODE = "proxy"
            THEN [tag |-> "DebuggerModeStatus", status |-> [tag |-> "Enabled"]]
            ELSE [tag |-> "DecodeError",
                  message |-> possiblyDecodeErrorToString(decoded.error)]
       ELSE IF Len(programTypes) = 0
       THEN [tag |-> "NoProgramsAtAll"]
       ELSE [tag |-> "DebuggerModeStatus",
             status |-> IF Len(noDebugger) = Len(programTypes)
                        THEN [tag |-> "Disabled",
                              reason |-> noDebuggerReason(newSet(noDebugger))]
                        ELSE [tag |-> "Enabled"]]

InitApps ==
    /\ InitPageIn(CompilationModeWithProxy)
    /\ ~stubbedReload
    /\ model.elmCompiledTimestamp = 41
    /\ attemptIn = 0
    /\ waitMs = 0
    /\ existing = [typeof |-> "undefined"]
    /\ trap = NoTrap
    /\ trapResult = NoTrap
    /\ Elm \in ElmValues
    /\ Elm = elmProxy => COMPILATION_MODE = "proxy"
    /\ appsStatus = NoTrap

CheckInitializedElmAppsStatus ==
    /\ appsStatus = NoTrap
    /\ appsStatus' = checkInitializedElmAppsStatus
    /\ UNCHANGED <<page, attemptIn, waitMs, existing, trap, trapResult, Elm>>

SpecApps == InitApps /\ [][CheckInitializedElmAppsStatus]_vars

----------------------------------------------------------------------------
(* update on its own: every message in every model up to the bounds *)

\* The dates a status can carry: the current instant and one tick before it.
Dates == {Now, Now - TickMs}

Status ==
    UNION {{[tag |-> "Busy", date |-> date],
            [tag |-> "CompileError", date |-> date],
            [tag |-> "EvalError", date |-> date],
            [tag |-> "Idle", date |-> date,
             sendKey |-> SEND_KEY_DO_NOT_USE_ALL_THE_TIME]}
             \cup {[tag |-> "Busy", date |-> date, compilationMode |-> mode] :
                     mode \in CompilationMode}
             \cup {[tag |-> "Connecting", date |-> date, attemptNumber |-> n] :
                     n \in 1..MaxAttempt}
             \cup {[tag |-> "SleepingBeforeReconnect", date |-> date,
                    attemptNumber |-> n] : n \in 1..MaxAttempt}
             \cup {[tag |-> "UnexpectedError", date |-> date, message |-> message] :
                     message \in ClientErrorMessages} :
           date \in Dates}

Model ==
    {[status |-> status, elmCompiledTimestamp |-> timestamp,
      canHotReload |-> canHotReload, uiExpanded |-> uiExpanded] :
       status \in Status, timestamp \in Stamps,
       canHotReload \in BOOLEAN, uiExpanded \in BOOLEAN}

Msg ==
    {[tag |-> "FocusedTab"]}
      \cup {[tag |-> tag, date |-> Now] :
              tag \in {"EvalErrored", "PageVisibilityChangedToVisible",
                       "SleepBeforeReconnectDone", "WebSocketClosed",
                       "WebSocketConnected"}}
      \cup {UiMsg(msg) :
              msg \in {[tag |-> "PressedChevron"], [tag |-> "PressedReconnectNow"]}
                        \cup {[tag |-> "ChangedCompilationMode",
                               compilationMode |-> mode,
                               sendKey |-> SEND_KEY_DO_NOT_USE_ALL_THE_TIME] :
                                mode \in CompilationMode}}
      \cup {[tag |-> "WebSocketMessageReceived", date |-> Now, data |-> data] :
              data \in WebSocketData}

InitUpdate ==
    /\ COMPILATION_MODE \in CompilationModeWithProxy
    /\ stubbedReload = FALSE
    /\ model \in Model
    /\ mutable = [webSocket |-> 1, listeners |-> TRUE]
    /\ sockets = [i \in 1..MaxSockets |-> IF i = 1 THEN "OPEN" ELSE "NONE"]
    /\ reloadOnClose = {}
    /\ timers = <<>>
    /\ visible = TRUE
    /\ msgQueue = <<>>
    /\ killed = FALSE
    /\ reloadCalled = FALSE
    /\ dom = view(model, COMPILATION_MODE, [tag |-> "NoProgramsAtAll"])
    /\ lastMsg = InitMsg
    /\ cmds = <<>>
    /\ lastAttempt = AttemptOf(model, 1)
    /\ attemptIn = 0
    /\ waitMs = 0
    /\ existing = [typeof |-> "undefined"]
    /\ trap = NoTrap
    /\ trapResult = NoTrap
    /\ Elm = [typeof |-> "undefined"]
    /\ appsStatus = NoTrap

\* update(msg, model), and nothing else: no command is run.
CallUpdate ==
    /\ lastMsg = InitMsg
    /\ \E msg \in Msg :
         /\ model' = update(msg, model).model
         /\ cmds' = update(msg, model).cmds
         /\ lastMsg' = msg
    /\ lastAttempt' = AttemptOf(model', lastAttempt)
    /\ UNCHANGED <<mutable, sockets, reloadOnClose, timers, visible, msgQueue,
                   killed, reloadCalled, dom, COMPILATION_MODE, stubbedReload,
                   calls>>

SpecUpdate == InitUpdate /\ [][CallUpdate]_vars

----------------------------------------------------------------------------
(* Properties.  In an action formula the unprimed model is the model the    *)
(* message was processed in, lastMsg' the message, cmds' what update        *)
(* returned for it and model' the model it returned.                        *)

HasCmd(cs, tag) == \E i \in 1..Len(cs) : cs[i].tag = tag

Received(msg, tag) ==
    /\ msg.tag = "WebSocketMessageReceived"
    /\ msg.data \in WebSocketToClientMessage
    /\ msg.data.tag = tag

ReceivedMalformed(msg) ==
    /\ msg.tag = "WebSocketMessageReceived"
    /\ msg.data \notin WebSocketToClientMessage

LiveSockets == {ws \in 1..MaxSockets : sockets[ws] \in {"CONNECTING", "OPEN"}}

\* C1: an Eval command is emitted only by a SuccessfullyCompiled processed
\* while canHotReload is true and whose mode is the configured one; a
\* SuccessfullyCompiled processed while canHotReload is false yields ReloadPage
\* and no Eval.
C1_EvalOnlyWhenHotReloadable ==
    [][/\ HasCmd(cmds', "Eval") =>
            /\ Received(lastMsg', "SuccessfullyCompiled")
            /\ model.canHotReload
            /\ lastMsg'.data.compilationMode = COMPILATION_MODE
       /\ (Received(lastMsg', "SuccessfullyCompiled") /\ ~model.canHotReload) =>
            /\ HasCmd(cmds', "ReloadPage")
            /\ ~HasCmd(cmds', "Eval")]_vars

\* C1 witness: a SuccessfullyCompiled has just been hot reloaded.
C1_Witness ==
    /\ Received(lastMsg, "SuccessfullyCompiled")
    /\ HasCmd(cmds, "Eval")
    /\ model.canHotReload

C3_AsStated ==
    [][/\ lastMsg'.tag = "WebSocketClosed" =>
            /\ model'.status.tag = "SleepingBeforeReconnect"
            /\ model'.status.attemptNumber = lastAttempt + 1
            /\ cmds' = <<[tag |-> "SleepBeforeReconnect",
                          attemptNumber |-> lastAttempt + 1]>>
       /\ lastMsg' # InitMsg => lastAttempt' >= lastAttempt]_vars

\* C3 as amended: a WebSocketClosed processed in Connecting(n) or
\* SleepingBeforeReconnect(n) gives SleepingBeforeReconnect(n + 1), one processed
\* in a status without attempt number gives SleepingBeforeReconnect(1); the
\* SleepBeforeReconnect command carries the same number; no other message
\* changes the attempt number of a status that keeps one.
C3_AttemptAfterClose ==
    [][/\ lastMsg'.tag = "WebSocketClosed" =>
            LET n == IF model.status.tag \in {"Connecting", "SleepingBeforeReconnect"}
                     THEN model.status.attemptNumber + 1
                     ELSE 1
            IN /\ model'.status.tag = "SleepingBeforeReconnect"
               /\ model'.status.attemptNumber = n
               /\ cmds' = <<[tag |-> "SleepBeforeReconnect", attemptNumber |-> n]>>
       /\ (/\ lastMsg'.tag \notin {"WebSocketClosed", "init"}
           /\ "attemptNumber" \in DOMAIN model'.status) =>
            /\ "attemptNumber" \in DOMAIN model.status
            /\ model'.status.attemptNumber = model.status.attemptNumber]_vars

\* C3 witness: a close after a connection that had been opened at the second
\* attempt: the attempt number is back to 1.
C3_Witness ==
    /\ lastMsg.tag = "WebSocketClosed"
    /\ model.status.tag = "SleepingBeforeReconnect"
    /\ model.status.attemptNumber = 1
    /\ HasCmd(cmds, "SleepBeforeReconnect")

\* C4: at most one socket the page opened is connecting or open at any time,
\* and a Reconnect command is run only when the socket held has closed.
C4_OneLiveConnection ==
    /\ [](Cardinality(LiveSockets) <= 1)
    /\ [][HasCmd(cmds', "Reconnect") =>
            sockets[mutable.webSocket] = "CLOSED"]_vars

\* C4 witness: the page became visible and a new socket was opened.
C4_Witness ==
    /\ lastMsg.tag = "PageVisibilityChangedToVisible"
    /\ HasCmd(cmds, "Reconnect")
    /\ sockets[mutable.webSocket] = "CONNECTING"

Elapsed(status) == Now - status.date

\* C5: Reconnect is emitted only by a wake message processed in
\* SleepingBeforeReconnect; SleepBeforeReconnectDone gives it only if the time
\* since the status was entered is at least retryWaitMs of its attempt number,
\* and otherwise changes nothing and emits nothing.
C5_WakeOnly ==
    [][/\ HasCmd(cmds', "Reconnect") =>
            /\ model.status.tag = "SleepingBeforeReconnect"
            /\ \/ lastMsg'.tag \in {"SleepBeforeReconnectDone",
                                    "PageVisibilityChangedToVisible"}
               \/ /\ lastMsg'.tag = "UiMsg"
                  /\ lastMsg'.msg.tag = "PressedReconnectNow"
       /\ lastMsg'.tag = "SleepBeforeReconnectDone" =>
            IF /\ model.status.tag = "SleepingBeforeReconnect"
               /\ Elapsed(model.status) >= 1000 + 10 * model.status.attemptNumber ^ 2
            THEN HasCmd(cmds', "Reconnect")
            ELSE model' = model /\ cmds' = <<>>]_vars

\* C5 witness: a timer armed by an earlier sleep fired during a later one,
\* before its time was up, and was ignored.
C5_Witness ==
    /\ lastMsg.tag = "SleepBeforeReconnectDone"
    /\ model.status.tag = "SleepingBeforeReconnect"
    /\ Elapsed(model.status) > 0
    /\ cmds = <<>>

\* C6: whenever the status is SleepingBeforeReconnect and the page stays
\* visible, the status eventually is Connecting: a Reconnect was issued.
C6_EventuallyReconnects ==
    [](((model.status.tag = "SleepingBeforeReconnect") /\ []visible)
          => <>(model.status.tag = "Connecting"))

\* C6 witness: the timer of a sleep fired and the page reconnected.
C6_Witness ==
    /\ lastMsg.tag = "SleepBeforeReconnectDone"
    /\ model.status.tag = "Connecting"
    /\ HasCmd(cmds, "Reconnect")

InitialModel(m) ==
    /\ m.status.tag = "Connecting"
    /\ m.status.attemptNumber = 1
    /\ ~m.canHotReload
    /\ ~m.uiExpanded

\* C7: the model of a page load is Connecting(1) with canHotReload and
\* uiExpanded false, and canHotReload goes from false to true only where a
\* StatusChanged with AlreadyUpToDate is processed, which gives Idle.
C7_HotReloadOnlyAfterUpToDate ==
    /\ InitialModel(model)
    /\ [][/\ lastMsg' = InitMsg => InitialModel(model')
          /\ (~model.canHotReload /\ model'.canHotReload) =>
               /\ Received(lastMsg', "StatusChanged")
               /\ lastMsg'.data.status.tag = "AlreadyUpToDate"
               /\ model'.status.tag = "Idle"]_vars

\* C7 witness: AlreadyUpToDate has just turned canHotReload on.
C7_Witness ==
    /\ Received(lastMsg, "StatusChanged")
    /\ lastMsg.data.status.tag = "AlreadyUpToDate"
    /\ model.canHotReload
    /\ model.status.tag = "Idle"

\* C8: retryWaitMs(attempt) is min(1000 + 10 * attempt^2, 60000): 1010 at
\* attempt 1, within 1010..60000, nondecreasing, and 60000 from the cap on.
C8_RetryWaitMs ==
    attemptIn >= 1 =>
      /\ waitMs = IF 1000 + 10 * attemptIn ^ 2 < 60000
                  THEN 1000 + 10 * attemptIn ^ 2
                  ELSE 60000
      /\ waitMs >= 1010
      /\ waitMs <= 60000
      /\ attemptIn = 1 => waitMs = 1010
      /\ \A later \in attemptIn..(MaxCheckedAttempt + 1) :
           /\ retryWaitMs(later) >= waitMs
           /\ waitMs = 60000 => retryWaitMs(later) = 60000

\* C8 witness: the first attempt number at which the cap applies.
C8_Witness ==
    /\ attemptIn = 77
    /\ waitMs = 60000

\* C9: a frame that fails decoding gives UnexpectedError with the decoder's
\* message, uiExpanded true and no command, and leaves canHotReload and the
\* compiled timestamp as they were.
C9_DecodeFailure ==
    [][ReceivedMalformed(lastMsg') =>
         /\ model'.status.tag = "UnexpectedError"
         /\ model'.status.message =
              DecodeErrorPrefix
                \o (IF lastMsg'.data.raw = "not json"
                    THEN JsonSyntaxError ELSE TagDecoderError)
         /\ model'.uiExpanded
         /\ cmds' = <<>>
         /\ model'.canHotReload = model.canHotReload
         /\ model'.elmCompiledTimestamp = model.elmCompiledTimestamp]_vars

\* C9 witness: a malformed frame arrived on a page that could hot reload.
C9_Witness ==
    /\ ReceivedMalformed(lastMsg)
    /\ model.status.tag = "UnexpectedError"
    /\ model.canHotReload

\* C10: a SuccessfullyCompiled of the configured mode processed while
\* canHotReload is true gives Idle and its timestamp, leaves canHotReload and
\* uiExpanded as they were, and emits exactly one Eval with its code.
C10_HotReload ==
    [][(/\ Received(lastMsg', "SuccessfullyCompiled")
        /\ model.canHotReload
        /\ lastMsg'.data.compilationMode = COMPILATION_MODE) =>
         /\ model'.status.tag = "Idle"
         /\ model'.elmCompiledTimestamp = lastMsg'.data.elmCompiledTimestamp
         /\ model'.canHotReload = model.canHotReload
         /\ model'.uiExpanded = model.uiExpanded
         /\ cmds' = <<[tag |-> "Eval", code |-> lastMsg'.data.code]>>]_vars

\* C10 witness: Scenario A, after AlreadyUpToDate and
\* SuccessfullyCompiled("1+1", 42, "standard") on a page in mode standard.
C10_Witness ==
    /\ COMPILATION_MODE = "standard"
    /\ lastMsg.tag = "WebSocketMessageReceived"
    /\ lastMsg.data = SuccessfullyCompiled("1+1", 42, "standard")
    /\ model.status.tag = "Idle"
    /\ model.elmCompiledTimestamp = 42
    /\ cmds = <<[tag |-> "Eval", code |-> "1+1"]>>

\* C11: a SuccessfullyCompiled processed with canHotReload false or with a mode
\* other than the configured one emits exactly [ReloadPage] and leaves the
\* model (status, compiled timestamp, canHotReload, uiExpanded) as it was.
C11_ReloadLeavesModel ==
    [][(/\ Received(lastMsg', "SuccessfullyCompiled")
        /\ \/ ~model.canHotReload
           \/ lastMsg'.data.compilationMode # COMPILATION_MODE) =>
         /\ cmds' = <<[tag |-> "ReloadPage"]>>
         /\ model' = model]_vars

\* C11 witness: Scenario B, a SuccessfullyCompiled of the configured mode on a
\* page that cannot hot reload yet, with a timestamp the model does not hold.
C11_Witness ==
    /\ Received(lastMsg, "SuccessfullyCompiled")
    /\ lastMsg.data.compilationMode = COMPILATION_MODE
    /\ lastMsg.data.elmCompiledTimestamp # model.elmCompiledTimestamp
    /\ ~model.canHotReload
    /\ cmds = <<[tag |-> "ReloadPage"]>>

WakeMsg(msg) ==
    \/ msg.tag \in {"SleepBeforeReconnectDone", "PageVisibilityChangedToVisible"}
    \/ msg.tag = "UiMsg" /\ msg.msg.tag = "PressedReconnectNow"

\* C12: a wake processed in SleepingBeforeReconnect(n), forced or after at
\* least retryWaitMs(n), gives Connecting(n), leaves the rest of the model and
\* emits exactly one Reconnect with the model's compiled timestamp; a close in
\* Connecting(1) gives SleepingBeforeReconnect(2), the wake then Connecting(2).
C12_WakeKeepsAttempt ==
    [][/\ (/\ WakeMsg(lastMsg')
           /\ model.status.tag = "SleepingBeforeReconnect"
           /\ \/ lastMsg'.tag # "SleepBeforeReconnectDone"
              \/ Elapsed(model.status) >= 1000 + 10 * model.status.attemptNumber ^ 2) =>
            /\ model'.status.tag = "Connecting"
            /\ model'.status.attemptNumber = model.status.attemptNumber
            /\ model'.elmCompiledTimestamp = model.elmCompiledTimestamp
            /\ model'.canHotReload = model.canHotReload
            /\ model'.uiExpanded = model.uiExpanded
            /\ cmds' = <<[tag |-> "Reconnect",
                          elmCompiledTimestamp |-> model.elmCompiledTimestamp]>>
       /\ (/\ lastMsg'.tag = "WebSocketClosed"
           /\ model.status.tag = "Connecting"
           /\ model.status.attemptNumber = 1) =>
            /\ model'.status.tag = "SleepingBeforeReconnect"
            /\ model'.status.attemptNumber = 2]_vars

\* C12 witness: Scenario C, the timer of SleepingBeforeReconnect(2) fired and
\* the page is connecting for the second time.
C12_Witness ==
    /\ lastMsg.tag = "SleepBeforeReconnectDone"
    /\ model.status.tag = "Connecting"
    /\ model.status.attemptNumber = 2
    /\ cmds = <<[tag |-> "Reconnect", elmCompiledTimestamp |-> model.elmCompiledTimestamp]>>

\* C13: a FocusedTab never changes the model; it emits exactly one
\* SendMessage(FocusedTab) when the status is Idle and nothing in any other.
C13_FocusedTab ==
    [][lastMsg'.tag = "FocusedTab" =>
         /\ model' = model
         /\ cmds' = IF model.status.tag = "Idle"
                    THEN <<[tag |-> "SendMessage",
                            message |-> [tag |-> "FocusedTab"],
                            sendKey |-> SEND_KEY_DO_NOT_USE_ALL_THE_TIME]>>
                    ELSE <<>>]_vars

\* C13 witness: the tab was focused in Idle and the server was told.
C13_Witness ==
    /\ lastMsg.tag = "FocusedTab"
    /\ model.status.tag = "Idle"
    /\ HasCmd(cmds, "SendMessage")

\* C14: whenever the page becomes visible in SleepingBeforeReconnect,
\* PageVisibilityChangedToVisible is processed and gives Connecting and a
\* Reconnect at once, whatever time has passed since the sleep began.
C14_VisibleReconnectsAtOnce ==
    [][/\ (~visible /\ visible' /\ model.status.tag = "SleepingBeforeReconnect") =>
            lastMsg'.tag = "PageVisibilityChangedToVisible"
       /\ (/\ lastMsg'.tag = "PageVisibilityChangedToVisible"
           /\ model.status.tag = "SleepingBeforeReconnect") =>
            /\ model'.status.tag = "Connecting"
            /\ model'.status.date = Now
            /\ HasCmd(cmds', "Reconnect")
            /\ sockets'[mutable'.webSocket] = "CONNECTING"]_vars

\* C14 witness: the page became visible and reconnected while the timer of
\* the sleep it was in had all of its time left.
C14_Witness ==
    /\ lastMsg.tag = "PageVisibilityChangedToVisible"
    /\ model.status.tag = "Connecting"
    /\ HasCmd(cmds, "Reconnect")
    /\ \E i \in 1..Len(timers) : timers[i] = retryWaitMs(model.status.attemptNumber)

\* C15 as stated: EvalErrored gives EvalError, uiExpanded true and no command,
\* and once the status is EvalError nothing but a page load replaces it.
C15_AsStated ==
    [][/\ lastMsg'.tag = "EvalErrored" =>
            /\ model'.status.tag = "EvalError"
            /\ model'.uiExpanded
            /\ cmds' = <<>>
       /\ (model.status.tag = "EvalError" /\ model'.status.tag # "EvalError") =>
            lastMsg' = InitMsg]_vars

\* C15 as amended: EvalErrored gives EvalError, uiExpanded true and no command
\* and leaves canHotReload and the compiled timestamp; the status EvalError is
\* replaced, with no page load, by every StatusChanged, every hot reloaded
\* SuccessfullyCompiled, every frame that fails decoding and every
\* WebSocketClosed, and is kept by every other message.
C15_EvalErrored ==
    [][/\ lastMsg'.tag = "EvalErrored" =>
            /\ model'.status.tag = "EvalError"
            /\ model'.uiExpanded
            /\ cmds' = <<>>
            /\ model'.canHotReload = model.canHotReload
            /\ model'.elmCompiledTimestamp = model.elmCompiledTimestamp
       /\ (model.status.tag = "EvalError" /\ lastMsg' \notin {NoMsg, InitMsg}) =>
            (model'.status.tag # "EvalError" <=>
               \/ Received(lastMsg', "StatusChanged")
               \/ /\ Received(lastMsg', "SuccessfullyCompiled")
                  /\ model.canHotReload
                  /\ lastMsg'.data.compilationMode = COMPILATION_MODE
               \/ ReceivedMalformed(lastMsg')
               \/ lastMsg'.tag = "WebSocketClosed")]_vars

\* C15 witness: the code of a hot reload threw.
C15_Witness ==
    /\ lastMsg.tag = "EvalErrored"
    /\ model.status.tag = "EvalError"
    /\ model.uiExpanded
    /\ model.canHotReload
    /\ cmds = <<>>

\* The status a frame that failed decoding leaves.
DecodeFailed(status) ==
    /\ status.tag = "UnexpectedError"
    /\ status.message \in {DecodeErrorPrefix \o JsonSyntaxError,
                           DecodeErrorPrefix \o TagDecoderError}

\* C16 as stated: the UnexpectedError of a malformed frame stays until the
\* connection closes (or the page is loaded anew), and processing the frame
\* does not stop the program.
C16_AsStated ==
    [][/\ (DecodeFailed(model.status) /\ model'.status.tag # "UnexpectedError") =>
            lastMsg'.tag \in {"WebSocketClosed", "init"}
       /\ ReceivedMalformed(lastMsg') => ~killed']_vars

\* C16 as amended: processing a malformed frame neither stops the program nor
\* touches the connection and the listeners; the UnexpectedError it leaves is
\* replaced by the next StatusChanged other than ClientError, by the next hot
\* reloaded SuccessfullyCompiled and by WebSocketClosed, and kept by every
\* other message.
C16_DecodeErrorNotSticky ==
    [][/\ ReceivedMalformed(lastMsg') =>
            /\ DecodeFailed(model'.status)
            /\ ~killed'
            /\ mutable' = mutable
            /\ sockets' = sockets
       /\ (DecodeFailed(model.status) /\ lastMsg' \notin {NoMsg, InitMsg}) =>
            (model'.status.tag # "UnexpectedError" <=>
               \/ /\ Received(lastMsg', "StatusChanged")
                  /\ lastMsg'.data.status.tag # "ClientError"
               \/ /\ Received(lastMsg', "SuccessfullyCompiled")
                  /\ model.canHotReload
                  /\ lastMsg'.data.compilationMode = COMPILATION_MODE
               \/ lastMsg'.tag = "WebSocketClosed")]_vars

\* C16 witness: a message was processed after a malformed frame, the error
\* still showing and the connection still open.
C16_Witness ==
    /\ DecodeFailed(model.status)
    /\ lastMsg.tag = "FocusedTab"
    /\ ~killed
    /\ sockets[mutable.webSocket] = "OPEN"

\* The held connection's close event is observed in this step.
HeldSocketCloses ==
    /\ sockets[mutable.webSocket] # "CLOSED"
    /\ sockets'[mutable.webSocket] = "CLOSED"

Placeholder == target(existing)

Own(property) == property \in DOMAIN Placeholder
Inherited(property) == property \notin DOMAIN Placeholder /\ property = toString
Underscored(property) == property[1] = "_"

\* C18 as stated, a property of the placeholder's own taken to exist and one
\* it neither has nor inherits taken to be absent: reading a property that
\* exists returns its value, reading one that starts with an underscore never
\* raises, reading any other absent one raises the fixed error.
C18_AsStated ==
    trap.name = "get" =>
      /\ Own(trap.property) =>
           trapResult = [tag |-> "return", value |-> Placeholder[trap.property]]
      /\ Underscored(trap.property) => trapResult.tag = "return"
      /\ (/\ ~Own(trap.property)
          /\ ~Inherited(trap.property)
          /\ ~Underscored(trap.property)) =>
           trapResult = [tag |-> "throw", error |-> error]

\* C18 as amended: reading a property returns what the placeholder gives for
\* it, its own or an inherited value, when that is not undefined or the name
\* starts with an underscore, and raises the fixed error otherwise: so for a
\* property that is there but holds undefined too.
C18_Get ==
    trap.name = "get" =>
      LET value == IF Own(trap.property) THEN Placeholder[trap.property]
                   ELSE IF Inherited(trap.property) THEN ObjectPrototypeToString
                   ELSE undefined
      IN IF value # undefined \/ Underscored(trap.property)
         THEN trapResult = [tag |-> "return", value |-> value]
         ELSE trapResult = [tag |-> "throw", error |-> error]

\* C18 witness: Main is a property of window.Elm that holds undefined, and
\* reading it raised.
C18_Witness ==
    /\ trap = [name |-> "get", property |-> Main]
    /\ Own(Main)
    /\ Placeholder[Main] = undefined
    /\ trapResult = [tag |-> "throw", error |-> error]

\* The result of an operation that raised the fixed error.
Raises(result) == result.tag = "throw" /\ result.error = error

\* C19 as stated, with one notion of an absent property for both operations:
\* a presence check and a descriptor lookup of the same property either both
\* raise (it is absent) or both report (it is present), and listing the keys
\* raises.
C19_AsStated ==
    /\ trap.name \in {"has", "getOwnPropertyDescriptor"} =>
         (Raises(has(Placeholder, trap.property))
            <=> Raises(getOwnPropertyDescriptor(Placeholder, trap.property)))
    /\ trap.name = "ownKeys" => Raises(trapResult)

\* C19 as amended: a presence check raises for a property the placeholder
\* neither has nor inherits and answers true otherwise; a descriptor lookup
\* raises for every property that is not the placeholder's own, inherited ones
\* included, and returns the descriptor otherwise; listing the keys raises.
C19_HasAndDescriptor ==
    /\ trap.name = "has" =>
         IF Own(trap.property) \/ Inherited(trap.property)
         THEN trapResult = [tag |-> "return", value |-> TRUE]
         ELSE Raises(trapResult)
    /\ trap.name = "getOwnPropertyDescriptor" =>
         IF Own(trap.property)
         THEN /\ trapResult.tag = "return"
              /\ trapResult.value.value = Placeholder[trap.property]
         ELSE Raises(trapResult)
    /\ trap.name = "ownKeys" => Raises(trapResult)

\* C19 witness: the descriptor of toString, which every placeholder inherits
\* and none owns, was looked up and the lookup raised.
C19_Witness ==
    /\ trap = [name |-> "getOwnPropertyDescriptor", property |-> toString]
    /\ Inherited(toString)
    /\ has(Placeholder, toString) = [tag |-> "return", value |-> TRUE]
    /\ Raises(trapResult)

\* The program kinds with and without support for the debugger.
Compatible ==
    {"Browser.sandbox", "Browser.element", "Browser.document", "Browser.application"}
Incompatible == {"Platform.worker", "Html"}

\* A registry is well formed when it is an object whose fields, at every depth,
\* hold functions, arrays of programs or objects that are well formed too.
RECURSIVE WellFormed(_)
WellFormed(value) ==
    /\ value.typeof = "object"
    /\ \A i \in DOMAIN value.fields :
         \/ value.fields[i].typeof \in {"function", "array"}
         \/ WellFormed(value.fields[i])

\* The program kinds found in a registry.
RECURSIVE Found(_)
Found(value) ==
    CASE value.typeof = "array" -> {value.items[i] : i \in DOMAIN value.items}
      [] value.typeof = "object" ->
           UNION {Found(value.fields[i]) : i \in DOMAIN value.fields}
      [] OTHER -> {}

\* The reasons that name every kind of a set once, joined with "and".
Reasons(kinds) ==
    {"The Elm debugger isn't supported by "
       \o (IF Len(order) = 1
           THEN GraveAccent \o order[1] \o GraveAccent
           ELSE GraveAccent \o order[1] \o GraveAccent \o " and "
                  \o GraveAccent \o order[2] \o GraveAccent)
       \o " programs." :
     order \in {o \in [1..Cardinality(kinds) -> kinds] :
                  \A i, j \in DOMAIN o : o[i] = o[j] => i = j}}

\* C20: for every well-formed registry, introspection returns NoProgramsAtAll
\* when no program kind is found, DebuggerModeStatus(Enabled) when at least
\* one found kind supports the debugger, and DebuggerModeStatus(Disabled(reason))
\* when every found kind lacks that support, the reason naming each distinct
\* kind found exactly once, joined with "and".
C20_Introspection ==
    (appsStatus # NoTrap /\ WellFormed(Elm)) =>
      IF Found(Elm) = {}
      THEN appsStatus = [tag |-> "NoProgramsAtAll"]
      ELSE IF Found(Elm) \cap Compatible # {}
      THEN appsStatus = [tag |-> "DebuggerModeStatus", status |-> [tag |-> "Enabled"]]
      ELSE /\ appsStatus.tag = "DebuggerModeStatus"
           /\ appsStatus.status.tag = "Disabled"
           /\ appsStatus.status.reason \in Reasons(Found(Elm))

\* C20 witness: three programs of the two kinds without debugger support were
\* found, in two modules, and the reason names each kind once.
C20_Witness ==
    /\ appsStatus # NoTrap
    /\ WellFormed(Elm)
    /\ Len(Elm.fields) = 2
    /\ Len(ProgramTypes([Elm |-> Elm]).value) = 3
    /\ Found(Elm) = Incompatible
    /\ appsStatus.tag = "DebuggerModeStatus"
    /\ appsStatus.status.tag = "Disabled"
    /\ appsStatus.status.reason
         = "The Elm debugger isn't supported by 'Html' and 'Platform.worker' programs."

\* C21: when the registry fails validation, introspection returns DecodeError
\* with the decoder's message in the modes debug, standard and optimize, and
\* DebuggerModeStatus(Enabled) in the mode of the stub, and only in that one.
C21_DecodeFailure ==
    (appsStatus # NoTrap /\ ~WellFormed(Elm)) =>
      IF COMPILATION_MODE = "proxy"
      THEN appsStatus = [tag |-> "DebuggerModeStatus", status |-> [tag |-> "Enabled"]]
      ELSE /\ COMPILATION_MODE \in {"debug", "standard", "optimize"}
           /\ appsStatus = [tag |-> "DecodeError", message |-> WindowElmDecoderError]

\* C21 witness: a page compiled in debug mode whose window.Elm holds a field
\* that is no module, and the DecodeError it got.
C21_Witness ==
    /\ COMPILATION_MODE = "debug"
    /\ Elm.typeof = "object"
    /\ \E i \in DOMAIN Elm.fields : Elm.fields[i].typeof = "string"
    /\ appsStatus # NoTrap
    /\ appsStatus.tag = "DecodeError"

\* C22: a StatusChanged message maps the server's status to the client's in
\* every prior status: AlreadyUpToDate to Idle, Busy(mode) to Busy(mode),
\* CompileError to CompileError, ClientError(message) to
\* UnexpectedError(message) with uiExpanded true; it emits no command, leaves
\* the compiled timestamp alone and changes canHotReload (to true) in the
\* AlreadyUpToDate case only.
C22_StatusChanged ==
    [][Received(lastMsg', "StatusChanged") =>
         LET status == lastMsg'.data.status
             date == lastMsg'.date
         IN /\ status.tag = "AlreadyUpToDate" =>
                 /\ model'.status = [tag |-> "Idle", date |-> date,
                                     sendKey |-> SEND_KEY_DO_NOT_USE_ALL_THE_TIME]
                 /\ model'.canHotReload
            /\ status.tag = "Busy" =>
                 model'.status = [tag |-> "Busy", date |-> date,
                                  compilationMode |-> status.compilationMode]
            /\ status.tag = "CompileError" =>
                 model'.status = [tag |-> "CompileError", date |-> date]
            /\ status.tag = "ClientError" =>
                 /\ model'.status = [tag |-> "UnexpectedError", date |-> date,
                                     message |-> status.message]
                 /\ model'.uiExpanded
            /\ status.tag \in {"AlreadyUpToDate", "Busy", "CompileError", "ClientError"}
            /\ status.tag # "AlreadyUpToDate" =>
                 model'.canHotReload = model.canHotReload
            /\ cmds' = <<>>
            /\ model'.elmCompiledTimestamp = model.elmCompiledTimestamp]_vars

\* C22 witness: a ClientError has just been received on a page that could hot
\* reload, and the widget is open on it.
C22_Witness ==
    /\ Received(lastMsg, "StatusChanged")
    /\ lastMsg.data.status.tag = "ClientError"
    /\ model.status.tag = "UnexpectedError"
    /\ model.status.message = lastMsg.data.status.message
    /\ model.uiExpanded
    /\ model.canHotReload

\* C23: a WebSocketConnected message sets the status to Busy, with no
\* compilation mode, whatever the status was, emits no command and leaves the
\* compiled timestamp, canHotReload and uiExpanded as they were.
C23_WebSocketConnected ==
    [][lastMsg'.tag = "WebSocketConnected" =>
         /\ model'.status = [tag |-> "Busy", date |-> lastMsg'.date]
         /\ cmds' = <<>>
         /\ model'.elmCompiledTimestamp = model.elmCompiledTimestamp
         /\ model'.canHotReload = model.canHotReload
         /\ model'.uiExpanded = model.uiExpanded]_vars

\* C23 witness: WebSocketConnected was processed in a model that could hot
\* reload and whose view shows the reconnect button, one whose status is
\* SleepingBeforeReconnect that is, and the status is Busy.
C23_Witness ==
    /\ lastMsg.tag = "WebSocketConnected"
    /\ model.status = [tag |-> "Busy", date |-> Now]
    /\ dom.reconnectNow
    /\ model.canHotReload
    /\ model.uiExpanded

\* C24: the chooser carries a change handler, and so dispatches
\* ChangedCompilationMode, only when it is rendered for status Idle (none when
\* rendered for Busy); the message processed in status Idle gives Busy with
\* the chosen mode and exactly one SendMessage(ChangedCompilationMode) of that
\* mode.
C24_ChangedCompilationMode ==
    [][/\ (lastMsg'.tag = "UiMsg" /\ lastMsg'.msg.tag = "ChangedCompilationMode") =>
            /\ model.status.tag = "Idle"
            /\ model'.status = [tag |-> "Busy", date |-> lastMsg'.date,
                                compilationMode |-> lastMsg'.msg.compilationMode]
            /\ cmds' = <<[tag |-> "SendMessage",
                          message |-> [tag |-> "ChangedCompilationMode",
                                       compilationMode |->
                                         lastMsg'.msg.compilationMode],
                          sendKey |-> SEND_KEY_DO_NOT_USE_ALL_THE_TIME]>>
       /\ dom'.modes # {} => model'.status.tag = "Idle"
       /\ model'.status.tag = "Busy" => dom'.modes = {}]_vars

\* C24 witness: the user has just chosen the debug mode on a page compiled in
\* standard mode, and the status is Busy with that mode.
C24_Witness ==
    /\ lastMsg.tag = "UiMsg"
    /\ lastMsg.msg.tag = "ChangedCompilationMode"
    /\ lastMsg.msg.compilationMode = "debug"
    /\ COMPILATION_MODE = "standard"
    /\ model.status.tag = "Busy"
    /\ model.status.compilationMode = "debug"
    /\ HasCmd(cmds, "SendMessage")
    /\ dom.modes = {}

JustConnected(status) ==
    status.tag = "Busy" /\ "compilationMode" \notin DOMAIN status

\* C26: once canHotReload is true no transition of the page sets it back to
\* false, a connection closing and being made anew included; so a
\* SuccessfullyCompiled of the configured mode that is the first message of a
\* new connection is hot reloaded (Eval), with no AlreadyUpToDate on that
\* connection.
C26_HotReloadSurvivesReconnect ==
    [][/\ (model.canHotReload /\ lastMsg' # InitMsg) => model'.canHotReload
       /\ (/\ JustConnected(model.status)
           /\ model.canHotReload
           /\ Received(lastMsg', "SuccessfullyCompiled")
           /\ lastMsg'.data.compilationMode = COMPILATION_MODE) =>
            cmds' = <<[tag |-> "Eval", code |-> lastMsg'.data.code]>>]_vars

\* C26 witness: a connection has just opened on a page that an earlier
\* connection, since closed, had left able to hot reload.
C26_Witness ==
    /\ lastMsg.tag = "WebSocketConnected"
    /\ JustConnected(model.status)
    /\ model.canHotReload

\* C27: the compiled timestamp of the model changes only where a
\* SuccessfullyCompiled is hot reloaded, and it does so before the outcome of
\* the evaluation is known: when the Eval throws, EvalErrored is processed in
\* a model that has the timestamp of that message already and keeps it, and a
\* Reconnect command reports the timestamp of the model it is emitted in.
C27_TimestampWithEval ==
    [][/\ (model'.elmCompiledTimestamp # model.elmCompiledTimestamp
             /\ lastMsg' # InitMsg) =>
            /\ Received(lastMsg', "SuccessfullyCompiled")
            /\ HasCmd(cmds', "Eval")
            /\ model'.elmCompiledTimestamp = lastMsg'.data.elmCompiledTimestamp
       /\ lastMsg'.tag = "EvalErrored" =>
            /\ Received(lastMsg, "SuccessfullyCompiled")
            /\ HasCmd(cmds, "Eval")
            /\ model.elmCompiledTimestamp = lastMsg.data.elmCompiledTimestamp
            /\ model'.elmCompiledTimestamp = lastMsg.data.elmCompiledTimestamp
       /\ HasCmd(cmds', "Reconnect") =>
            /\ cmds' = <<[tag |-> "Reconnect",
                          elmCompiledTimestamp |-> model.elmCompiledTimestamp]>>
            /\ model'.elmCompiledTimestamp = model.elmCompiledTimestamp]_vars

\* C27 witness: the code of a SuccessfullyCompiled has just thrown, and the
\* model has the timestamp 42 that came with it.
C27_Witness ==
    /\ lastMsg.tag = "EvalErrored"
    /\ model.status.tag = "EvalError"
    /\ model.elmCompiledTimestamp = 42

C29_StubAlwaysReloads ==
    [][(COMPILATION_MODE = "proxy" /\ Received(lastMsg', "SuccessfullyCompiled")) =>
         /\ lastMsg'.data.compilationMode # "proxy"
         /\ cmds' = <<[tag |-> "ReloadPage"]>>
         /\ ~HasCmd(cmds', "Eval")
         /\ model' = model]_vars

\* C29 witness: the stub has just received a SuccessfullyCompiled while
\* canHotReload was true, and reloads.
C29_Witness ==
    /\ COMPILATION_MODE = "proxy"
    /\ Received(lastMsg, "SuccessfullyCompiled")
    /\ model.canHotReload
    /\ cmds = <<[tag |-> "ReloadPage"]>>

\* C30: a WebSocketClosed processed in Busy, Idle, CompileError, EvalError or
\* UnexpectedError gives SleepingBeforeReconnect with attempt number 1 and a
\* SleepBeforeReconnect command for attempt 1; one processed in Connecting(n)
\* or SleepingBeforeReconnect(n) gives attempt n + 1 in both.
C30_AttemptNumberAfterClose ==
    [][lastMsg'.tag = "WebSocketClosed" =>
         LET Sleeping(n) == [tag |-> "SleepingBeforeReconnect",
                             date |-> lastMsg'.date, attemptNumber |-> n]
         IN
         /\ model.status.tag \in {"Busy", "Idle", "CompileError", "EvalError",
                                  "UnexpectedError"} =>
              /\ model' = [model EXCEPT !.status = Sleeping(1)]
              /\ cmds' = <<[tag |-> "SleepBeforeReconnect", attemptNumber |-> 1]>>
         /\ \A n \in 1..MaxAttempt :
              (/\ model.status.tag \in {"Connecting", "SleepingBeforeReconnect"}
               /\ model.status.attemptNumber = n) =>
                /\ model' = [model EXCEPT !.status = Sleeping(n + 1)]
                /\ cmds' = <<[tag |-> "SleepBeforeReconnect",
                              attemptNumber |-> n + 1]>>]_vars

\* C30 witness: a WebSocketClosed was processed in a model whose view carries
\* a send key, one whose status is Idle that is, and the status is
\* SleepingBeforeReconnect(1).
C30_Witness ==
    /\ lastMsg.tag = "WebSocketClosed"
    /\ dom.sendKey # undefined
    /\ model.status = [tag |-> "SleepingBeforeReconnect", date |-> Now,
                       attemptNumber |-> 1]
    /\ cmds = <<[tag |-> "SleepBeforeReconnect", attemptNumber |-> 1]>>

====
